---- MODULE Spec2Model ----
(***************************************************************************)
(* State-machine model of the pipe-network generators                      *)
(* (data-generation/tree-ring-yaml-generator.py and yaml-generator.py), of *)
(* the signal compression (output-processing/pipe-network-processor.py and *)
(* receiver-data-compressor.py) and of the feature and label extraction    *)
(* process_run_folder of output-processing/pipe-network-processor.py.      *)
(*                                                                         *)
(* Python lists are 0-indexed, TLA+ sequences 1-indexed: pipes[i] here is  *)
(* pipes[i-1] of the source.  A name f"pipe{n}" is the pair <<"pipe", n>>, *)
(* f"sink{n}" is <<"sink", n>>, f"#{n}-<type>" is <<n, type>>.             *)
(* Continuous draws (length, z, r, theta, particle count) do not steer     *)
(* control flow and are not carried in the records.                        *)
(***************************************************************************)
EXTENDS Integers, Sequences, FiniteSets, TLC

\* ---------------------------------------------------------------- bounds
MaxB == 3
MaxD == 3
MaxPipes == 7
MaxPipeNum == 3
MaxRadius == 1
MaxReceivers == 2
MaxLen == 4
MaxVal == 2
MaxFactor == 5
MaxRunId == 2
MaxRunPipes == 3
MaxSplit == 2

\* ------------------------- constants of pipe-network-processor.py (8-11)
\* L_MAX = 0.005 and R_MAX = 0.0005; lengths are counted in units of 0.001
\* and radii in units of 0.0001, so both maxima are 5 units
L_MAX == 5
R_MAX == 5
MAX_DEPTH == 5
MAX_CHILDREN == 4

VARIABLES variant, max_branches, max_depth, pipes, queue, sinks, sink_count,
          receiver_id, loop_i, data, pc, pipe_count, receiver_count,
          time_series, factor, compressed, spc, t_peak, new_counters, dpc,
          run_folder, max_pipes, emitter_pipe, emitter_z, pipe_folders,
          features, pipe_to_slot, y_pipe_slot, y_z_norm, rpc,
          pipe_folder_name, current_pipe, visited, depth, wpc,
          folders, split_i, features_list, pipe_labels, z_labels, split_pc

genVars == <<variant, max_branches, max_depth, pipes, queue, sinks,
             sink_count, receiver_id, loop_i, data, pc, pipe_count,
             receiver_count>>

sigVars == <<time_series, factor, compressed, spc, t_peak, new_counters, dpc>>

\* process_run_folder: the run directory read, the arguments and the locals
runVars == <<max_pipes, emitter_pipe, emitter_z, pipe_folders, features,
             pipe_to_slot, y_pipe_slot, y_z_norm, rpc>>

\* the locals of the depth walk of one pipe folder
walkVars == <<pipe_folder_name, current_pipe, visited, depth, wpc>>

\* process_split: the run folders of the split, the loop index and the
\* three lists
splitVars == <<folders, split_i, features_list, pipe_labels, z_labels,
               split_pc>>

vars == <<genVars, sigVars, run_folder, runVars, walkVars, splitVars>>

\* the number 0 as a fraction
Zero == <<0, 1>>

\* ------------------------------------------------------ names (f-strings)
PipeName(n) == <<"pipe", n>>

SinkName(n) == <<"sink", n>>

RingType == "Ring type with thickness"

IsPipeName(nm) == nm[1] = "pipe"

IsSinkName(nm) == nm[1] = "sink"

\* ------------------------------------- names in the simulator's files
\* A name read from a file is "pipe" repeated p times followed by the
\* decimal number n: "3" is [p |-> 0, n |-> 3], "pipe3" is [p |-> 1, n |-> 3].
Str(n) == [p |-> 0, n |-> n]

\* the null sentinel "-1" of the parent field
Sentinel == Str(-1)

\* the text "x<n>", which int() rejects, carries the extra field x
NotANumber(n) == [p |-> 0, n |-> n, x |-> TRUE]

\* int(name.replace("pipe", "")) returns (no ValueError)
is_number(name) == "x" \notin DOMAIN name

\* f"pipe{name}"
Prefixed(name) == [name EXCEPT !.p = @ + 1]

\* name.replace("pipe", "") followed by int()
pipe_number(name) == name.n

\* emitter_pipe = None
None == [p |-> -1, n |-> 0]

\* --------------------------------------- tree-ring-yaml-generator.py
\* slot_id without the "- 1" of the geometric sum
slot_id_NoMinusOne(level, branch_idx) ==
    (max_branches ^ level) \div (max_branches - 1) + branch_idx

\* slot_id: first slot of a level (geometric sum) plus the branch index
slot_id(level, branch_idx) ==
    ((max_branches ^ level) - 1) \div (max_branches - 1) + branch_idx

root_pipe ==
    [name |-> PipeName(0), left_connections |-> <<>>,
     right_connections |-> <<>>, flow |-> Zero, emitters |-> <<>>,
     receivers |-> <<>>, depth |-> 0, slot |-> 0]

\* root_child with a 1-based branch index in the slot
root_child_OneBased(branch_idx) ==
    [name |-> PipeName(slot_id(1, branch_idx + 1)),
     left_connections |-> <<root_pipe.name>>,
     right_connections |-> <<>>, flow |-> Zero, emitters |-> <<>>,
     receivers |-> <<>>, depth |-> 1, slot |-> slot_id(1, branch_idx + 1),
     parent_slot |-> 0, branch_idx |-> branch_idx]

\* the child record created in the root branch (lines 75-90)
root_child(branch_idx) ==
    [name |-> PipeName(slot_id(1, branch_idx)),
     left_connections |-> <<root_pipe.name>>,
     right_connections |-> <<>>, flow |-> Zero, emitters |-> <<>>,
     receivers |-> <<>>, depth |-> 1, slot |-> slot_id(1, branch_idx),
     parent_slot |-> 0, branch_idx |-> branch_idx]

\* child_slot without the factor max_branches on the parent's offset
child_slot_NoFactor(current_depth, parent_slot, branch_idx) ==
    slot_id(current_depth + 1,
            (parent_slot - slot_id(current_depth, 0)) + branch_idx)

\* the slot computed inside the BFS loop (line 117)
child_slot(current_depth, parent_slot, branch_idx) ==
    slot_id(current_depth + 1,
            max_branches * (parent_slot - slot_id(current_depth, 0)) + branch_idx)

\* child_pipe connected to the root instead of its parent
child_pipe_LeftIsRoot(parent_pipe, branch_idx) ==
    [name |-> PipeName(child_slot(parent_pipe.depth, parent_pipe.slot, branch_idx)),
     left_connections |-> <<root_pipe.name>>,
     right_connections |-> <<>>, flow |-> Zero, emitters |-> <<>>,
     receivers |-> <<>>, depth |-> parent_pipe.depth + 1,
     slot |-> child_slot(parent_pipe.depth, parent_pipe.slot, branch_idx),
     parent_slot |-> parent_pipe.slot, branch_idx |-> branch_idx]

\* the child record created inside the BFS loop (lines 119-132)
child_pipe(parent_pipe, branch_idx) ==
    [name |-> PipeName(child_slot(parent_pipe.depth, parent_pipe.slot, branch_idx)),
     left_connections |-> <<parent_pipe.name>>,
     right_connections |-> <<>>, flow |-> Zero, emitters |-> <<>>,
     receivers |-> <<>>, depth |-> parent_pipe.depth + 1,
     slot |-> child_slot(parent_pipe.depth, parent_pipe.slot, branch_idx),
     parent_slot |-> parent_pipe.slot, branch_idx |-> branch_idx]

\* sequence <<f(0), ..., f(n-1)>> of the names of a list of pipe records
Names(ps) == [k \in 1..Len(ps) |-> ps[k].name]

\* ---------------------------------------------- shared by both generators
\* flow_value: flows are exact fractions <<numerator, denominator>> counted
\* in units of the flow_value parameter
FlowValue == <<1, 1>>

NoData == [pipes |-> <<>>, sinks |-> <<>>]

emitter_data == [emitter_pattern_type |-> "complete"]

\* place_emitter when every pipe shares one emitters list
place_emitter_SharedList(ps, idx) ==
    [k \in 1..Len(ps) |-> [ps[k] EXCEPT !.emitters = Append(@, emitter_data)]]

\* emitter_pipe['emitters'].append(emitter_data)
place_emitter(ps, idx) == [ps EXCEPT ![idx].emitters = Append(@, emitter_data)]

\* is_leaf that also accepts a pipe with one connection
is_leaf_AtMostOne(pipe) == Len(pipe.right_connections) <= 1

\* len(pipe['right_connections']) == 0
is_leaf(pipe) == Len(pipe.right_connections) = 0

\* sinks[sink_name] = {'left_connections': [pipe['name']]}
new_sink(n, pipe) == [name |-> SinkName(n), left_connections |-> <<pipe.name>>]

\* receiver_id += 1
next_receiver_id(rid) == rid + 1

\* tree-ring-yaml-generator.py lines 197-211: the sink name and the ring receiver
tree_leaf(pipe, n, rid) ==
    [pipe EXCEPT !.right_connections = Append(@, SinkName(n)),
                 !.receivers = Append(@, [type |-> RingType,
                                          name |-> <<rid, RingType>>,
                                          countingType |-> 0])]

\* pipe_info of one pipe; emitters and receivers only when not empty
pipe_info(pipe) ==
    [left_connections |-> pipe.left_connections,
     right_connections |-> pipe.right_connections,
     flow |-> pipe.flow,
     emitters |-> pipe.emitters,
     receivers |-> pipe.receivers]

\* d[key] = val on an insertion-ordered dict kept as a sequence of entries
RECURSIVE dict_set(_, _, _)
dict_set(d, key, val) ==
    IF d = <<>> THEN <<[key |-> key, val |-> val]>>
    ELSE IF Head(d).key = key THEN <<[key |-> key, val |-> val]>> \o Tail(d)
    ELSE <<Head(d)>> \o dict_set(Tail(d), key, val)

RECURSIVE build_pipes_dict(_)
build_pipes_dict(ps) ==
    IF ps = <<>> THEN <<>>
    ELSE LET front == [k \in 1..(Len(ps) - 1) |-> ps[k]]
         IN dict_set(build_pipes_dict(front), ps[Len(ps)].name, pipe_info(ps[Len(ps)]))

\* the generators read no receiver signal
SignalIdle ==
    /\ time_series = <<>>
    /\ factor = 1
    /\ compressed = <<>>
    /\ spc = "idle"
    /\ t_peak = Zero
    /\ new_counters = <<>>
    /\ dpc = "idle"

\* no run directory is read
RunIdle ==
    /\ run_folder = <<>>
    /\ max_pipes = 0
    /\ emitter_pipe = None
    /\ emitter_z = 0
    /\ pipe_folders = {}
    /\ features = <<>>
    /\ pipe_to_slot = <<>>
    /\ y_pipe_slot = -1
    /\ y_z_norm = Zero
    /\ rpc = "idle"

WalkIdle ==
    /\ pipe_folder_name = None
    /\ current_pipe = Sentinel
    /\ visited = {}
    /\ depth = 0
    /\ wpc = "idle"

SplitIdle ==
    /\ folders = <<>>
    /\ split_i = 0
    /\ features_list = <<>>
    /\ pipe_labels = <<>>
    /\ z_labels = <<>>
    /\ split_pc = "idle"

Init ==
    /\ \/ /\ variant = "tree"
          /\ max_branches \in 2..MaxB
          /\ max_depth \in 0..MaxD
       \/ /\ variant = "rrt"
          /\ max_branches = 0
          /\ max_depth = 0
    /\ pipe_count = 0
    /\ receiver_count = 0
    /\ pipes = <<>>
    /\ queue = <<>>
    /\ sinks = <<>>
    /\ sink_count = 0
    /\ receiver_id = 0
    /\ loop_i = 0
    /\ data = NoData
    /\ pc = "start"
    /\ SignalIdle
    /\ RunIdle
    /\ WalkIdle
    /\ SplitIdle

\* TreeRoot drawing the root's branch count from 0 on
TreeRoot_FromZero ==
    /\ variant = "tree" /\ pc = "start"
    /\ \E num_branches_for_root \in 0..max_branches :
         /\ 1 + num_branches_for_root <= MaxPipes
         /\ LET children == [k \in 1..num_branches_for_root |-> root_child(k - 1)]
            IN /\ pipes' = <<[root_pipe EXCEPT !.right_connections = Names(children)]>>
                              \o children
               /\ queue' = [k \in 1..num_branches_for_root |-> 1 + k]
    /\ pc' = "bfs"
    /\ UNCHANGED <<variant, max_branches, max_depth, sinks, sink_count,
                   receiver_id, loop_i, data, pipe_count, receiver_count>>
    /\ UNCHANGED <<sigVars, run_folder, runVars, walkVars, splitVars>>

\* lines 43-97: the root pipe and the root's children
TreeRoot ==
    /\ variant = "tree" /\ pc = "start"
    /\ \E num_branches_for_root \in 1..max_branches :
         /\ 1 + num_branches_for_root <= MaxPipes
         /\ LET children == [k \in 1..num_branches_for_root |-> root_child(k - 1)]
            IN /\ pipes' = <<[root_pipe EXCEPT !.right_connections = Names(children)]>>
                              \o children
               /\ queue' = [k \in 1..num_branches_for_root |-> 1 + k]
    /\ pc' = "bfs"
    /\ UNCHANGED <<variant, max_branches, max_depth, sinks, sink_count,
                   receiver_id, loop_i, data, pipe_count, receiver_count>>
    /\ UNCHANGED <<sigVars, run_folder, runVars, walkVars, splitVars>>

\* TreeExpand taking the pipe added last (a stack in place of the queue)
TreeExpand_DepthFirst ==
    /\ variant = "tree" /\ pc = "bfs" /\ queue # <<>>
    /\ LET pi == queue[Len(queue)]
           rest == SubSeq(queue, 1, Len(queue) - 1)
           parent_pipe == pipes[pi]
       IN IF parent_pipe.depth >= max_depth
          THEN /\ queue' = rest
               /\ pipes' = pipes
          ELSE \E num_branches \in 0..max_branches :
                 /\ Len(pipes) + num_branches <= MaxPipes
                 /\ LET children == [k \in 1..num_branches |-> child_pipe(parent_pipe, k - 1)]
                    IN /\ pipes' = [pipes EXCEPT ![pi].right_connections = @ \o Names(children)]
                                      \o children
                       /\ queue' = rest \o [k \in 1..num_branches |-> Len(pipes) + k]
    /\ UNCHANGED <<variant, max_branches, max_depth, sinks, sink_count,
                   receiver_id, loop_i, data, pc, pipe_count, receiver_count>>
    /\ UNCHANGED <<sigVars, run_folder, runVars, walkVars, splitVars>>

\* lines 99-139: one iteration of the BFS loop
TreeExpand ==
    /\ variant = "tree" /\ pc = "bfs" /\ queue # <<>>
    /\ LET pi == Head(queue)
           parent_pipe == pipes[pi]
       IN IF parent_pipe.depth >= max_depth
          THEN /\ queue' = Tail(queue)
               /\ pipes' = pipes
          ELSE \E num_branches \in 0..max_branches :
                 /\ Len(pipes) + num_branches <= MaxPipes
                 /\ LET children == [k \in 1..num_branches |-> child_pipe(parent_pipe, k - 1)]
                    IN /\ pipes' = [pipes EXCEPT ![pi].right_connections = @ \o Names(children)]
                                      \o children
                       /\ queue' = Tail(queue) \o [k \in 1..num_branches |-> Len(pipes) + k]
    /\ UNCHANGED <<variant, max_branches, max_depth, sinks, sink_count,
                   receiver_id, loop_i, data, pc, pipe_count, receiver_count>>
    /\ UNCHANGED <<sigVars, run_folder, runVars, walkVars, splitVars>>

\* lines 146-147: every pipe gets the same flow (in units of flow_value)
TreeFlow ==
    /\ variant = "tree" /\ pc = "bfs" /\ queue = <<>>
    /\ pipes' = [k \in 1..Len(pipes) |-> [pipes[k] EXCEPT !.flow = FlowValue]]
    /\ pc' = "emitter"
    /\ UNCHANGED <<variant, max_branches, max_depth, queue, sinks, sink_count,
                   receiver_id, loop_i, data, pipe_count, receiver_count>>
    /\ UNCHANGED <<sigVars, run_folder, runVars, walkVars, splitVars>>

\* lines 156-183: every weight exp(-alpha*d) is positive, so random.choices
\* can return any index; the emitter record is appended to that pipe
TreeEmitter ==
    /\ variant = "tree" /\ pc = "emitter"
    /\ \E emitter_pipe_idx \in 1..Len(pipes) :
         pipes' = place_emitter(pipes, emitter_pipe_idx)
    /\ sink_count' = 0
    /\ receiver_id' = 1
    /\ loop_i' = 1
    /\ pc' = "leaves"
    /\ UNCHANGED <<variant, max_branches, max_depth, queue, sinks, data,
                   pipe_count, receiver_count>>
    /\ UNCHANGED <<sigVars, run_folder, runVars, walkVars, splitVars>>

\* lines 192-212: one iteration of the leaf loop
TreeLeaf ==
    /\ variant = "tree" /\ pc = "leaves" /\ loop_i <= Len(pipes)
    /\ IF is_leaf(pipes[loop_i])
       THEN /\ sink_count' = sink_count + 1
            /\ pipes' = [pipes EXCEPT ![loop_i] = tree_leaf(@, sink_count + 1, receiver_id)]
            /\ sinks' = Append(sinks, new_sink(sink_count + 1, pipes[loop_i]))
            /\ receiver_id' = next_receiver_id(receiver_id)
       ELSE UNCHANGED <<sink_count, pipes, sinks, receiver_id>>
    /\ loop_i' = loop_i + 1
    /\ UNCHANGED <<variant, max_branches, max_depth, queue, data, pc,
                   pipe_count, receiver_count>>
    /\ UNCHANGED <<sigVars, run_folder, runVars, walkVars, splitVars>>

\* lines 217-248: the returned document
TreeYaml ==
    /\ variant = "tree" /\ pc = "leaves" /\ loop_i > Len(pipes)
    /\ data' = [pipes |-> build_pipes_dict(pipes), sinks |-> sinks]
    /\ pc' = "done"
    /\ UNCHANGED <<variant, max_branches, max_depth, pipes, queue, sinks,
                   sink_count, receiver_id, loop_i, pipe_count, receiver_count>>
    /\ UNCHANGED <<sigVars, run_folder, runVars, walkVars, splitVars>>

\* ------------------------------------------------- yaml-generator.py
SphereType == "Sphere type"

\* lines 62-75: one pipe record; radius is the only drawn quantity kept
rrt_pipe(i, radius) ==
    [name |-> PipeName(i), radius |-> radius, left_connections |-> <<>>,
     right_connections |-> <<>>, flow |-> FlowValue, emitters |-> <<>>,
     receivers |-> <<>>]

\* pipes[0], pipes[root_index] = pipes[root_index], pipes[0]
swap_root(ps, root_index) ==
    [k \in 1..Len(ps) |-> IF k = 1 THEN ps[root_index + 1]
                          ELSE IF k = root_index + 1 THEN ps[1]
                          ELSE ps[k]]

\* the orders random.shuffle can leave m items in
Perms(m) == {f \in [1..m -> 1..m] : \A a, b \in 1..m : a # b => f[a] # f[b]}

\* connect with the two roles exchanged
connect_Reversed(ps, parent_index, child_index) ==
    [ps EXCEPT ![parent_index + 1].left_connections = Append(@, ps[child_index + 1].name),
               ![child_index + 1].right_connections = Append(@, ps[parent_index + 1].name)]

\* lines 101-105: child gets the parent's name on the left, parent the child's
\* name on the right (indices as in the source, 0-based)
connect(ps, parent_index, child_index) ==
    [ps EXCEPT ![child_index + 1].left_connections = Append(@, ps[parent_index + 1].name),
               ![parent_index + 1].right_connections = Append(@, ps[child_index + 1].name)]

\* name_to_pipe = {pipe['name']: pipe for pipe in pipes}: a later pipe of
\* the same name replaces an earlier one; 0 when the name is no key
name_to_pipe(ps, nm) ==
    LET hits == {k \in 1..Len(ps) : ps[k].name = nm}
    IN IF hits = {} THEN 0 ELSE CHOOSE k \in hits : \A h \in hits : h <= k

\* the pipes (by position) that the right connections of a pipe name
children_of(ps, parent) ==
    LET found == SelectSeq(parent.right_connections,
                           LAMBDA nm : name_to_pipe(ps, nm) # 0)
    IN [r \in 1..Len(found) |-> name_to_pipe(ps, found[r])]

\* child['depth'] = d
set_depth(pipe, d) == [depth |-> d] @@ pipe

\* lines 115-122: the BFS that stores a depth on every reached pipe
RECURSIVE bfs_depth(_, _)
bfs_depth(ps, q) ==
    IF q = <<>> THEN ps
    ELSE LET parent == ps[Head(q)]
             kids == children_of(ps, parent)
             kidset == {kids[r] : r \in 1..Len(kids)}
         IN bfs_depth([k \in 1..Len(ps) |->
                          IF k \in kidset THEN set_depth(ps[k], parent.depth + 1)
                          ELSE ps[k]],
                      Tail(q) \o kids)

\* child_flow without the division by the sum of the sibling radii
child_flow_NotNormalised(parent_flow, r, total_r) ==
    IF total_r > 0 THEN <<parent_flow[1] * r, parent_flow[2]>> ELSE Zero

\* line 146: parent['flow'] * (r / total_r) if total_r > 0 else 0
child_flow(parent_flow, r, total_r) ==
    IF total_r > 0 THEN <<parent_flow[1] * r, parent_flow[2] * total_r>> ELSE Zero

RECURSIVE SumRadii(_, _)
SumRadii(ps, kids) ==
    IF kids = <<>> THEN 0 ELSE ps[Head(kids)].radius + SumRadii(ps, Tail(kids))

\* lines 134-147: the BFS that splits each pipe's flow among its children
RECURSIVE bfs_flow(_, _)
bfs_flow(ps, q) ==
    IF q = <<>> THEN ps
    ELSE LET parent == ps[Head(q)]
             kids == [r \in 1..Len(parent.right_connections) |->
                        name_to_pipe(ps, parent.right_connections[r])]
             kidset == {kids[r] : r \in 1..Len(kids)}
             total_r == SumRadii(ps, kids)
         IN bfs_flow([k \in 1..Len(ps) |->
                         IF k \in kidset
                         THEN [ps[k] EXCEPT !.flow = child_flow(parent.flow, ps[k].radius, total_r)]
                         ELSE ps[k]],
                     Tail(q) \o kids)

\* lines 168-176: a sphere receiver appended to the chosen pipe
place_receiver(ps, pipe_idx, rid) ==
    [ps EXCEPT ![pipe_idx + 1].receivers =
                  Append(@, [type |-> SphereType, name |-> <<rid, SphereType>>])]

\* rrt_leaf numbering the leaf receiver with the sink counter
rrt_leaf_SinkNumbered(pipe, n, rid) ==
    [pipe EXCEPT !.right_connections = Append(@, SinkName(n)),
                 !.receivers = Append(@, [type |-> SphereType,
                                          name |-> <<n, SphereType>>])]

\* lines 225-239: the sink name and the sphere receiver of a leaf
rrt_leaf(pipe, n, rid) ==
    [pipe EXCEPT !.right_connections = Append(@, SinkName(n)),
                 !.receivers = Append(@, [type |-> SphereType,
                                          name |-> <<rid, SphereType>>])]

\* lines 42-76: the pipe count and the pipe records
RrtCreate ==
    /\ variant = "rrt" /\ pc = "start"
    /\ \E n \in 1..MaxPipeNum :
         /\ pipe_count' = n
         /\ \E radii \in [1..n -> 0..MaxRadius] :
              pipes' = [k \in 1..n |-> rrt_pipe(k - 1, radii[k])]
    /\ pc' = "shuffle"
    /\ UNCHANGED <<variant, max_branches, max_depth, queue, sinks, sink_count,
                   receiver_id, loop_i, data, receiver_count>>
    /\ UNCHANGED <<sigVars, run_folder, runVars, walkVars, splitVars>>

\* lines 86-94: a random pipe becomes pipes[0], the others are shuffled
RrtShuffle ==
    /\ variant = "rrt" /\ pc = "shuffle"
    /\ \E root_index \in 0..(pipe_count - 1) :
         \E perm \in Perms(pipe_count - 1) :
            LET swapped == swap_root(pipes, root_index)
            IN pipes' = <<swapped[1]>> \o [k \in 1..(pipe_count - 1) |-> swapped[1 + perm[k]]]
    /\ loop_i' = 1
    /\ pc' = "parents"
    /\ UNCHANGED <<variant, max_branches, max_depth, queue, sinks, sink_count,
                   receiver_id, data, pipe_count, receiver_count>>
    /\ UNCHANGED <<sigVars, run_folder, runVars, walkVars, splitVars>>

\* lines 97-105: one iteration of the parent loop, i = loop_i
RrtAssignParent ==
    /\ variant = "rrt" /\ pc = "parents" /\ loop_i < pipe_count
    /\ \E parent_index \in 0..(loop_i - 1) :
         pipes' = connect(pipes, parent_index, loop_i)
    /\ loop_i' = loop_i + 1
    /\ UNCHANGED <<variant, max_branches, max_depth, queue, sinks, sink_count,
                   receiver_id, data, pc, pipe_count, receiver_count>>
    /\ UNCHANGED <<sigVars, run_folder, runVars, walkVars, splitVars>>

\* lines 111-122: depths by BFS from pipes[0]
RrtDepth ==
    /\ variant = "rrt" /\ pc = "parents" /\ loop_i >= pipe_count
    /\ pipes' = bfs_depth([pipes EXCEPT ![1] = set_depth(@, 0)], <<1>>)
    /\ pc' = "flow"
    /\ UNCHANGED <<variant, max_branches, max_depth, queue, sinks, sink_count,
                   receiver_id, loop_i, data, pipe_count, receiver_count>>
    /\ UNCHANGED <<sigVars, run_folder, runVars, walkVars, splitVars>>

\* RrtFlow followed at once by the emitter section, ahead of the receivers
RrtFlow_ThenEmitter ==
    /\ variant = "rrt" /\ pc = "flow"
    /\ \E emitter_pipe_idx \in 1..pipe_count :
         pipes' = place_emitter(bfs_flow([pipes EXCEPT ![1].flow = FlowValue], <<1>>),
                                emitter_pipe_idx)
    /\ pc' = "receiver_count"
    /\ UNCHANGED <<variant, max_branches, max_depth, queue, sinks, sink_count,
                   receiver_id, loop_i, data, pipe_count, receiver_count>>
    /\ UNCHANGED <<sigVars, run_folder, runVars, walkVars, splitVars>>

\* lines 128-147: flows by BFS from pipes[0]
RrtFlow ==
    /\ variant = "rrt" /\ pc = "flow"
    /\ pipes' = bfs_flow([pipes EXCEPT ![1].flow = FlowValue], <<1>>)
    /\ pc' = "receiver_count"
    /\ UNCHANGED <<variant, max_branches, max_depth, queue, sinks, sink_count,
                   receiver_id, loop_i, data, pipe_count, receiver_count>>
    /\ UNCHANGED <<sigVars, run_folder, runVars, walkVars, splitVars>>

\* lines 153-154: how many receivers to place
RrtReceiverCount ==
    /\ variant = "rrt" /\ pc = "receiver_count"
    /\ \E n \in (pipe_count \div 2)..((3 * pipe_count) \div 2) :
         /\ n <= MaxReceivers
         /\ receiver_count' = n
    /\ receiver_id' = 1
    /\ loop_i' = 0
    /\ pc' = "receivers"
    /\ UNCHANGED <<variant, max_branches, max_depth, pipes, queue, sinks,
                   sink_count, data, pipe_count>>
    /\ UNCHANGED <<sigVars, run_folder, runVars, walkVars, splitVars>>

\* lines 156-177: one iteration of the receiver loop
RrtReceiver ==
    /\ variant = "rrt" /\ pc = "receivers" /\ loop_i < receiver_count
    /\ \E pipe_idx \in 0..(pipe_count - 1) :
         pipes' = place_receiver(pipes, pipe_idx, receiver_id)
    /\ receiver_id' = next_receiver_id(receiver_id)
    /\ loop_i' = loop_i + 1
    /\ UNCHANGED <<variant, max_branches, max_depth, queue, sinks, sink_count,
                   data, pc, pipe_count, receiver_count>>
    /\ UNCHANGED <<sigVars, run_folder, runVars, walkVars, splitVars>>

\* lines 185-219: the emitter on a pipe drawn with positive weights
RrtEmitter ==
    /\ variant = "rrt" /\ pc = "receivers" /\ loop_i >= receiver_count
    /\ \E emitter_pipe_idx \in 1..pipe_count :
         pipes' = place_emitter(pipes, emitter_pipe_idx)
    /\ sinks' = <<>>
    /\ sink_count' = 0
    /\ loop_i' = 1
    /\ pc' = "leaves"
    /\ UNCHANGED <<variant, max_branches, max_depth, queue, receiver_id, data,
                   pipe_count, receiver_count>>
    /\ UNCHANGED <<sigVars, run_folder, runVars, walkVars, splitVars>>

\* lines 221-240: one iteration of the leaf loop
RrtLeaf ==
    /\ variant = "rrt" /\ pc = "leaves" /\ loop_i <= Len(pipes)
    /\ IF is_leaf(pipes[loop_i])
       THEN /\ sink_count' = sink_count + 1
            /\ pipes' = [pipes EXCEPT ![loop_i] = rrt_leaf(@, sink_count + 1, receiver_id)]
            /\ sinks' = Append(sinks, new_sink(sink_count + 1, pipes[loop_i]))
            /\ receiver_id' = next_receiver_id(receiver_id)
       ELSE UNCHANGED <<sink_count, pipes, sinks, receiver_id>>
    /\ loop_i' = loop_i + 1
    /\ UNCHANGED <<variant, max_branches, max_depth, queue, data, pc,
                   pipe_count, receiver_count>>
    /\ UNCHANGED <<sigVars, run_folder, runVars, walkVars, splitVars>>

\* lines 246-282: the returned document
RrtYaml ==
    /\ variant = "rrt" /\ pc = "leaves" /\ loop_i > Len(pipes)
    /\ data' = [pipes |-> build_pipes_dict(pipes), sinks |-> sinks]
    /\ pc' = "done"
    /\ UNCHANGED <<variant, max_branches, max_depth, pipes, queue, sinks,
                   sink_count, receiver_id, loop_i, pipe_count, receiver_count>>
    /\ UNCHANGED <<sigVars, run_folder, runVars, walkVars, splitVars>>

Next ==
    \/ TreeRoot
    \/ TreeExpand
    \/ TreeFlow
    \/ TreeEmitter
    \/ TreeLeaf
    \/ TreeYaml
    \/ RrtCreate
    \/ RrtShuffle
    \/ RrtAssignParent
    \/ RrtDepth
    \/ RrtFlow
    \/ RrtReceiverCount
    \/ RrtReceiver
    \/ RrtEmitter
    \/ RrtLeaf
    \/ RrtYaml

Spec == Init /\ [][Next]_vars

\* ------------------------------------------- pipe-network-processor.py
\* the Python slice sq[a:b] for 0 <= a <= b
Slice(sq, a, b) == SubSeq(sq, a + 1, IF b < Len(sq) THEN b ELSE Len(sq))

\* the built-in sum of a list
RECURSIVE sum(_)
sum(sq) == IF sq = <<>> THEN 0 ELSE Head(sq) + sum(Tail(sq))

\* the loop "for i in range(0, len(time_series), factor)" from index i on
RECURSIVE compress_from(_, _, _)
compress_from(ts, fac, i) ==
    IF i >= Len(ts) THEN <<>>
    ELSE <<sum(Slice(ts, i, i + fac))>> \o compress_from(ts, fac, i + fac)

\* the same loop when it only visits full windows
RECURSIVE compress_full_windows(_, _, _)
compress_full_windows(ts, fac, i) ==
    IF i + fac > Len(ts) THEN <<>>
    ELSE <<sum(Slice(ts, i, i + fac))>> \o compress_full_windows(ts, fac, i + fac)

compress_time_series_DropsPartial(ts, fac) == compress_full_windows(ts, fac, 0)

\* compress_time_series(time_series, factor), lines 37-43
compress_time_series(ts, fac) == compress_from(ts, fac, 0)

\* max(time_series) of a non-empty list
RECURSIVE max(_)
max(sq) ==
    IF Len(sq) = 1 THEN sq[1]
    ELSE IF Head(sq) >= max(Tail(sq)) THEN Head(sq) ELSE max(Tail(sq))

\* np.argmax: the 0-based position of the first occurrence of the maximum
argmax(sq) == (CHOOSE i \in 1..Len(sq) :
                 /\ sq[i] = max(sq)
                 /\ \A j \in 1..(i - 1) : sq[j] # max(sq)) - 1

\* get_t_peak_normalized counting positions from 1
get_t_peak_normalized_OneBased(ts) ==
    IF ts = <<>> \/ max(ts) = 0 THEN Zero
    ELSE IF Len(ts) > 0 THEN <<argmax(ts) + 1, Len(ts)>> ELSE Zero

\* get_t_peak_normalized, lines 45-52; the quotient t_peak / t_total is the
\* fraction <<t_peak, t_total>>
get_t_peak_normalized(ts) ==
    IF ts = <<>> \/ max(ts) = 0 THEN Zero
    ELSE IF Len(ts) > 0 THEN <<argmax(ts), Len(ts)>> ELSE Zero

\* ------------------------------------------ receiver-data-compressor.py
\* lines 24-29 from element i on: [new_counters, counter, current_sum] after
\* the loop
RECURSIVE compress_data_loop(_, _, _, _)
compress_data_loop(arr, compression_rate, i, st) ==
    IF i >= Len(arr) THEN st
    ELSE LET flushed == IF st.counter % compression_rate = 0 /\ st.counter # 0
                        THEN [st EXCEPT !.new_counters = Append(@, st.current_sum),
                                        !.current_sum = 0]
                        ELSE st
         IN compress_data_loop(arr, compression_rate, i + 1,
                [flushed EXCEPT !.current_sum = @ + arr[i + 1],
                                !.counter = @ + 1])

\* compress_data without the append of the last group
compress_data_NoLastGroup(arr, compression_rate) ==
    compress_data_loop(arr, compression_rate, 0,
        [new_counters |-> <<>>, counter |-> 0, current_sum |-> 0]).new_counters

\* compress_data(arr, compression_rate), lines 17-35
compress_data(arr, compression_rate) ==
    LET st == compress_data_loop(arr, compression_rate, 0,
                  [new_counters |-> <<>>, counter |-> 0, current_sum |-> 0])
    IN IF st.current_sum > 0 THEN Append(st.new_counters, st.current_sum)
       ELSE st.new_counters

\* the raw count sequences explored: every sequence over 0..MaxVal of
\* length up to MaxLen, and the sequence 1, 2, ..., 10
SignalInputs ==
    UNION {[1..n -> 0..MaxVal] : n \in 0..MaxLen} \cup {[k \in 1..10 |-> k]}

InitSignal ==
    /\ variant = "none"
    /\ max_branches = 0
    /\ max_depth = 0
    /\ pipes = <<>>
    /\ queue = <<>>
    /\ sinks = <<>>
    /\ sink_count = 0
    /\ receiver_id = 0
    /\ loop_i = 0
    /\ data = NoData
    /\ pc = "idle"
    /\ pipe_count = 0
    /\ receiver_count = 0
    /\ time_series \in SignalInputs
    /\ factor \in 1..MaxFactor
    /\ compressed = <<>>
    /\ spc = "input"
    /\ t_peak = Zero
    /\ new_counters = <<>>
    /\ dpc = "input"
    /\ RunIdle
    /\ WalkIdle
    /\ SplitIdle

\* a call compress_time_series(time_series, factor)
Compress ==
    /\ spc = "input"
    /\ compressed' = compress_time_series(time_series, factor)
    /\ spc' = "compressed"
    /\ UNCHANGED <<time_series, factor, t_peak, new_counters, dpc>>
    /\ UNCHANGED <<genVars, run_folder, runVars, walkVars, splitVars>>

\* a call get_t_peak_normalized(compressed_series), as in lines 180-182
Peak ==
    /\ spc = "compressed"
    /\ t_peak' = get_t_peak_normalized(compressed)
    /\ spc' = "peaked"
    /\ UNCHANGED <<time_series, factor, compressed, new_counters, dpc>>
    /\ UNCHANGED <<genVars, run_folder, runVars, walkVars, splitVars>>

\* a call compress_data(time_series, factor) of receiver-data-compressor.py
CompressData ==
    /\ dpc = "input"
    /\ new_counters' = compress_data(time_series, factor)
    /\ dpc' = "done"
    /\ UNCHANGED <<time_series, factor, compressed, spc, t_peak>>
    /\ UNCHANGED <<genVars, run_folder, runVars, walkVars, splitVars>>

NextSignal ==
    \/ Compress
    \/ Peak
    \/ CompressData

SpecSignal == InitSignal /\ [][NextSignal]_vars

\* ================= pipe-network-processor.py: process_run_folder (54-254)
\* A run directory is a function from the names of its pipe folders to the
\* first line of the folder's simulation_data.txt (pipe_name, parent_name,
\* length, radius) and the kind of receiver file the folder holds.

\* the number 1 as a fraction
One == <<1, 1>>

\* Python's min
min(a, b) == IF a <= b THEN a ELSE b

\* np.ones((max_pipes, 7)): one row of the initial tensor
ones_row == <<One, One, One, One, One, One, One>>

\* the raw series of an absorbing receiver file: ten zeros, then a count
receiver_series == [k \in 1..11 |-> IF k = 11 THEN 3 ELSE 0]

\* the walk goes on without the test of the visited set
walk_continues_NoVisitedTest(st) ==
    st.current_pipe # Sentinel

\* the condition of the while loop, line 133
walk_continues(st) ==
    st.current_pipe # Sentinel /\ st.current_pipe \notin st.visited

\* one iteration of the while loop, lines 134-155
walk_step(rf, folder, st) ==
    LET parent_folder == Prefixed(st.current_pipe)
        next_pipe ==
            IF parent_folder = folder THEN rf[folder].parent_name
            ELSE IF parent_folder \in DOMAIN rf
                 THEN IF rf[parent_folder].fields >= 2
                      THEN rf[parent_folder].parent_name
                      ELSE Sentinel
            ELSE Sentinel
    IN [current_pipe |-> next_pipe,
        visited |-> st.visited \cup {st.current_pipe},
        depth |-> st.depth + 1]

\* the locals before the loop, lines 129-131
walk_start(rf, folder) ==
    [current_pipe |-> rf[folder].pipe_name, visited |-> {}, depth |-> 0]

RECURSIVE walk(_, _, _)
walk(rf, folder, st) ==
    IF walk_continues(st) THEN walk(rf, folder, walk_step(rf, folder, st))
    ELSE st

\* depth after the walk, lines 128-155
calc_depth(rf, folder) == walk(rf, folder, walk_start(rf, folder)).depth

\* the child count taken over the other folders only
count_children_OthersOnly(rf, folder) ==
    Cardinality({other \in DOMAIN rf \ {folder} :
                    /\ rf[other].fields >= 2
                    /\ rf[other].parent_name = rf[folder].pipe_name})

\* num_children, lines 157-165: every folder pipe* of the run is scanned
count_children(rf, folder) ==
    Cardinality({other \in DOMAIN rf :
                    /\ rf[other].fields >= 2
                    /\ rf[other].parent_name = rf[folder].pipe_name})

\* has_receiver and t_peak, lines 167-183
receiver_features(rf, folder) ==
    IF rf[folder].receiver = "absorbing"
    THEN [has_receiver |-> One,
          t_peak |-> get_t_peak_normalized(
                         compress_time_series(receiver_series, 10))]
    ELSE [has_receiver |-> Zero, t_peak |-> Zero]

\* the row stored for a pipe folder, lines 185-192
feature_row(rf, folder) ==
    LET rx == receiver_features(rf, folder)
    IN << <<rf[folder].length, L_MAX>>,
          <<rf[folder].radius, R_MAX>>,
          <<min(calc_depth(rf, folder), MAX_DEPTH), MAX_DEPTH>>,
          <<min(count_children(rf, folder), MAX_CHILDREN), MAX_CHILDREN>>,
          rx.has_receiver,
          rx.t_peak,
          Zero >>

\* the range test with > in place of >=
slot_skipped_Above(slot, capacity) == slot > capacity

\* "Skip if the slot is out of range", lines 112-117
slot_skipped(slot, capacity) == slot >= capacity

\* features[slot, k]: numpy counts a negative index from the end
row_index(slot, capacity) == IF slot < 0 THEN capacity + slot ELSE slot

\* pipe_to_slot[pipe_name] = slot on a dict kept as a function
dict_put(d, key, val) ==
    [k \in DOMAIN d \cup {key} |-> IF k = key THEN val ELSE d[k]]

\* the folders, records and arguments explored
RunIds == (-1)..MaxRunId

RunNames == {Str(n) : n \in RunIds}

length_of(n) == n + 2

radius_of(n) == IF n <= MaxRunId THEN MaxRunId - n + 1 ELSE 1

RunFolders ==
    {ids \in SUBSET RunIds : Cardinality(ids) \in 1..MaxRunPipes}

\* the id of no folder: the run holds no absorbing receiver file
NoReceiver == -2

\* the folder listed first by glob
lowest(ids) == CHOOSE n \in ids : \A m \in ids : n <= m

\* the run directory with folders pipe<n> for n in ids, parent fields par
\* and an absorbing receiver file in folder pipe<rx>
run_of(ids, par, rx) ==
    [f \in {Prefixed(Str(n)) : n \in ids} |->
        [pipe_name |-> Str(f.n),
         parent_name |-> par[f.n],
         length |-> length_of(f.n),
         radius |-> radius_of(f.n),
         fields |-> 5,
         numeric |-> TRUE,
         receiver |-> IF f.n = rx THEN "absorbing" ELSE "none"]]

\* the runs of well-formed records
GeneralRuns ==
    UNION {{run_of(ids, par, rx) :
               par \in [ids -> RunNames], rx \in {lowest(ids), NoReceiver}} :
           ids \in RunFolders}

\* the ways a first line is malformed: one field, four fields, a length or
\* radius that float() rejects, a pipe name that int() rejects
Malformations == {"one", "short", "float", "name"}

\* the run rf with the record of folder pipe<n> malformed
malformed(rf, n, kind) ==
    [rf EXCEPT ![Prefixed(Str(n))] =
        [@ EXCEPT !.fields = IF kind = "one" THEN 1
                             ELSE IF kind = "short" THEN 4 ELSE 5,
                  !.numeric = (kind # "float"),
                  !.parent_name = IF kind = "one" THEN None ELSE @,
                  !.pipe_name = IF kind = "name" THEN NotANumber(n) ELSE @]]

\* runs of one or two records, one of them malformed
MalformedRuns ==
    UNION {{malformed(run_of(ids, par, NoReceiver), n, kind) :
               par \in [ids -> {Sentinel, Str(lowest(ids))}],
               n \in ids, kind \in Malformations} :
           ids \in {i \in RunFolders : Cardinality(i) <= 2}}

\* a chain of MAX_DEPTH + 1 records whose root is pipe MAX_DEPTH, and a
\* root pipe 0 with MAX_CHILDREN + 1 children
DeepRuns ==
    {run_of(0..MAX_DEPTH,
            [n \in 0..MAX_DEPTH |->
                IF n = MAX_DEPTH THEN Sentinel ELSE Str(n + 1)],
            NoReceiver),
     run_of(0..(MAX_CHILDREN + 1),
            [n \in 0..(MAX_CHILDREN + 1) |->
                IF n = 0 THEN Sentinel ELSE Str(0)],
            NoReceiver)}

\* two folders whose records name the same pipe number, "<n>" and
\* "pipe<n>": int(pipe_name.replace("pipe", "")) gives n for both
alias_of(n) ==
    [f \in {Prefixed(Str(n)), Prefixed(Prefixed(Str(n)))} |->
        [pipe_name |-> [f EXCEPT !.p = @ - 1],
         parent_name |-> Sentinel,
         length |-> length_of(n) + f.p - 1,
         radius |-> radius_of(n),
         fields |-> 5,
         numeric |-> TRUE,
         receiver |-> "none"]]

AliasRuns == {alias_of(n) : n \in 0..MaxRunId}

RunInputs == GeneralRuns \cup MalformedRuns \cup DeepRuns \cup AliasRuns

\* the contents of targetOutput.txt: missing, or a pipe name with or
\* without the "pipe" prefix
TargetNames == {None} \cup RunNames \cup {Prefixed(nm) : nm \in RunNames}

target_z == 2

InitRun ==
    /\ variant = "none"
    /\ max_branches = 0
    /\ max_depth = 0
    /\ pipe_count = 0
    /\ receiver_count = 0
    /\ pipes = <<>>
    /\ queue = <<>>
    /\ sinks = <<>>
    /\ sink_count = 0
    /\ receiver_id = 0
    /\ loop_i = 0
    /\ data = NoData
    /\ pc = "idle"
    /\ SignalIdle
    /\ WalkIdle
    /\ SplitIdle
    /\ run_folder \in RunInputs
    /\ max_pipes \in {MaxRunId, MaxRunId + 1}
    /\ emitter_pipe \in TargetNames
    /\ emitter_z = IF emitter_pipe = None THEN 0 ELSE target_z
    /\ pipe_folders = DOMAIN run_folder
    /\ features = [slot \in 0..(max_pipes - 1) |-> ones_row]
    /\ pipe_to_slot = <<>>
    /\ y_pipe_slot = -1
    /\ y_z_norm = Zero
    /\ rpc = "folders"

\* one iteration of the loop over pipe_folders, lines 88-192, as a function
\* of the tensor and the dict: a first line of fewer than five fields is
\* skipped, float() of a length or radius that is no number raises ValueError
\* outside every try, a name that is no number is skipped by the except
\* clause, and a row outside the tensor raises IndexError
process_pipe_folder(rf, capacity, folder, st) ==
    LET pipe_name == rf[folder].pipe_name
        slot == pipe_number(pipe_name)
    IN IF rf[folder].fields < 5 THEN st
       ELSE IF ~rf[folder].numeric THEN [st EXCEPT !.raised = TRUE]
       ELSE IF ~is_number(pipe_name) THEN st
       ELSE IF slot_skipped(slot, capacity) THEN st
       ELSE IF row_index(slot, capacity) \notin DOMAIN st.features
            THEN [st EXCEPT !.raised = TRUE]
       ELSE [features |-> [st.features EXCEPT ![row_index(slot, capacity)] =
                               feature_row(rf, folder)],
             pipe_to_slot |-> dict_put(st.pipe_to_slot, pipe_name, slot),
             raised |-> st.raised]

\* lines 88-192: the loop takes the next folder of os.listdir, whose order
\* is arbitrary
ProcessPipeFolder ==
    /\ rpc = "folders"
    /\ \E folder \in pipe_folders :
         LET st == process_pipe_folder(run_folder, max_pipes, folder,
                     [features |-> features, pipe_to_slot |-> pipe_to_slot,
                      raised |-> FALSE])
         IN /\ features' = st.features
            /\ pipe_to_slot' = st.pipe_to_slot
            /\ pipe_folders' = pipe_folders \ {folder}
            /\ rpc' = IF st.raised THEN "raised" ELSE rpc
    /\ UNCHANGED <<max_pipes, emitter_pipe, emitter_z, y_pipe_slot, y_z_norm>>
    /\ UNCHANGED <<genVars, sigVars, run_folder, walkVars, splitVars>>

\* the labels of lines 205-223
create_labels(target, z, slots) ==
    IF target # None /\ target \in DOMAIN slots
    THEN [y_pipe_slot |-> slots[target], y_z_norm |-> <<z, L_MAX>>]
    ELSE [y_pipe_slot |-> -1, y_z_norm |-> Zero]

\* lines 205-223 and the return of line 254
CreateLabels ==
    /\ rpc = "folders"
    /\ pipe_folders = {}
    /\ y_pipe_slot' = create_labels(emitter_pipe, emitter_z, pipe_to_slot).y_pipe_slot
    /\ y_z_norm' = create_labels(emitter_pipe, emitter_z, pipe_to_slot).y_z_norm
    /\ rpc' = "returned"
    /\ UNCHANGED <<max_pipes, emitter_pipe, emitter_z, pipe_folders, features,
                   pipe_to_slot>>
    /\ UNCHANGED <<genVars, sigVars, run_folder, walkVars, splitVars>>

\* the loop of lines 88-192 over the folders in the order given; an
\* exception ends it
RECURSIVE loop_folders(_, _, _, _)
loop_folders(rf, capacity, order, st) ==
    IF order = <<>> \/ st.raised THEN st
    ELSE loop_folders(rf, capacity, Tail(order),
                      process_pipe_folder(rf, capacity, Head(order), st))

\* process_run_folder, lines 54-254, for a listing order of the folders:
\* what it returns, or that it raised
process_run_folder(rf, capacity, target, z, order) ==
    LET st == loop_folders(rf, capacity, order,
                  [features |-> [slot \in 0..(capacity - 1) |-> ones_row],
                   pipe_to_slot |-> <<>>,
                   raised |-> FALSE])
        labels == create_labels(target, z, st.pipe_to_slot)
    IN IF st.raised THEN [raised |-> TRUE]
       ELSE [raised |-> FALSE,
             features |-> st.features,
             y_pipe_slot |-> labels.y_pipe_slot,
             y_z_norm |-> labels.y_z_norm]

\* one listing of a set of folders
RECURSIVE listdir(_)
listdir(names) ==
    IF names = {} THEN <<>>
    ELSE LET f == CHOOSE x \in names : TRUE
         IN <<f>> \o listdir(names \ {f})

NextRun ==
    \/ ProcessPipeFolder
    \/ CreateLabels

SpecRun == InitRun /\ [][NextRun]_vars

\* ------------------------------------ the depth walk, one step at a time
InitWalk ==
    /\ variant = "none"
    /\ max_branches = 0
    /\ max_depth = 0
    /\ pipe_count = 0
    /\ receiver_count = 0
    /\ pipes = <<>>
    /\ queue = <<>>
    /\ sinks = <<>>
    /\ sink_count = 0
    /\ receiver_id = 0
    /\ loop_i = 0
    /\ data = NoData
    /\ pc = "idle"
    /\ SignalIdle
    /\ max_pipes = 0
    /\ emitter_pipe = None
    /\ emitter_z = 0
    /\ pipe_folders = {}
    /\ features = <<>>
    /\ pipe_to_slot = <<>>
    /\ y_pipe_slot = -1
    /\ y_z_norm = Zero
    /\ rpc = "idle"
    /\ \E ids \in RunFolders :
         \E par \in [ids -> RunNames] :
            run_folder = run_of(ids, par, NoReceiver)
    /\ pipe_folder_name \in DOMAIN run_folder
    /\ current_pipe = walk_start(run_folder, pipe_folder_name).current_pipe
    /\ visited = walk_start(run_folder, pipe_folder_name).visited
    /\ depth = walk_start(run_folder, pipe_folder_name).depth
    /\ wpc = "while"
    /\ SplitIdle

\* one iteration of the while loop of lines 133-155
WalkStep ==
    /\ wpc = "while"
    /\ walk_continues([current_pipe |-> current_pipe, visited |-> visited,
                       depth |-> depth])
    /\ LET st == walk_step(run_folder, pipe_folder_name,
                     [current_pipe |-> current_pipe, visited |-> visited,
                      depth |-> depth])
       IN /\ current_pipe' = st.current_pipe
          /\ visited' = st.visited
          /\ depth' = st.depth
    /\ UNCHANGED <<pipe_folder_name, wpc>>
    /\ UNCHANGED <<genVars, sigVars, run_folder, runVars, splitVars>>

\* the loop condition is false: the walk is over
WalkExit ==
    /\ wpc = "while"
    /\ ~walk_continues([current_pipe |-> current_pipe, visited |-> visited,
                        depth |-> depth])
    /\ wpc' = "exit"
    /\ UNCHANGED <<pipe_folder_name, current_pipe, visited, depth>>
    /\ UNCHANGED <<genVars, sigVars, run_folder, runVars, splitVars>>

NextWalk ==
    \/ WalkStep
    \/ WalkExit

SpecWalk == InitWalk /\ [][NextWalk]_vars

\* the loop is scheduled until it exits
SpecWalkFair == SpecWalk /\ WF_vars(NextWalk)

\* ------------------------------------------- process_split, lines 312-348
\* sum(base**i for i in range(top + 1))
RECURSIVE power_sum(_, _)
power_sum(base, top) ==
    IF top = 0 THEN 1 ELSE base ^ top + power_sum(base, top - 1)

\* max_pipes when the argument is None, lines 57-58
default_max_pipes == power_sum(MAX_CHILDREN, MAX_DEPTH)

\* a run of the one pipe 0
one_pipe == run_of({0}, [n \in {0} |-> Sentinel], NoReceiver)

\* the run folders of a split: the pipe's record well-formed, with a length
\* that is no number, or with four fields; the target missing, pipe 0 or a
\* pipe the run does not have
SplitRuns ==
    {[run |-> rf, target |-> t] :
        rf \in {one_pipe, malformed(one_pipe, 0, "float"),
                malformed(one_pipe, 0, "short")},
        t \in {None, Str(0), Str(1)}}

SplitInputs == UNION {[1..n -> SplitRuns] : n \in 0..MaxSplit}

\* process_run_folder(folder, L_MAX, R_MAX, max_pipes=None), line 323
run_result(folder) ==
    process_run_folder(folder.run, default_max_pipes, folder.target,
                       IF folder.target = None THEN 0 ELSE target_z,
                       listdir(DOMAIN folder.run))

InitSplit ==
    /\ variant = "none"
    /\ max_branches = 0
    /\ max_depth = 0
    /\ pipe_count = 0
    /\ receiver_count = 0
    /\ pipes = <<>>
    /\ queue = <<>>
    /\ sinks = <<>>
    /\ sink_count = 0
    /\ receiver_id = 0
    /\ loop_i = 0
    /\ data = NoData
    /\ pc = "idle"
    /\ SignalIdle
    /\ RunIdle
    /\ WalkIdle
    /\ folders \in SplitInputs
    /\ split_i = 0
    /\ features_list = <<>>
    /\ pipe_labels = <<>>
    /\ z_labels = <<>>
    /\ split_pc = "loop"

\* one iteration of the loop of lines 319-330: the three appends follow the
\* call, and an exception of the call is caught and printed
ProcessRun ==
    /\ split_pc = "loop"
    /\ split_i < Len(folders)
    /\ LET result == run_result(folders[split_i + 1])
       IN IF result.raised
          THEN UNCHANGED <<features_list, pipe_labels, z_labels>>
          ELSE /\ features_list' = Append(features_list, result.features)
               /\ pipe_labels' = Append(pipe_labels, result.y_pipe_slot)
               /\ z_labels' = Append(z_labels, result.y_z_norm)
    /\ split_i' = split_i + 1
    /\ UNCHANGED <<folders, split_pc>>
    /\ UNCHANGED <<genVars, sigVars, run_folder, runVars, walkVars>>

\* lines 332-348: np.stack and np.array keep the order and the length of
\* the lists, and no sample gives three arrays of length 0
StackArrays ==
    /\ split_pc = "loop"
    /\ split_i = Len(folders)
    /\ split_pc' = "returned"
    /\ UNCHANGED <<folders, split_i, features_list, pipe_labels, z_labels>>
    /\ UNCHANGED <<genVars, sigVars, run_folder, runVars, walkVars>>

NextSplit ==
    \/ ProcessRun
    \/ StackArrays

SpecSplit == InitSplit /\ [][NextSplit]_vars

\* ================================================================ claims
\* position of the pipe record named nm in the list (0 when there is none)
IndexOfName(nm) ==
    IF \E j \in 1..Len(pipes) : pipes[j].name = nm
    THEN CHOOSE j \in 1..Len(pipes) : pipes[j].name = nm
    ELSE 0

\* following left connections from the pipe named nm reaches pipe0 without
\* visiting a name twice
RECURSIVE ReachesRoot(_, _)
ReachesRoot(nm, seen) ==
    IF nm \in seen \/ IndexOfName(nm) = 0 THEN FALSE
    ELSE IF nm = PipeName(0) THEN TRUE
    ELSE LET left == pipes[IndexOfName(nm)].left_connections
         IN IF Len(left) # 1 THEN FALSE
            ELSE ReachesRoot(left[1], seen \cup {nm})

InSeq(x, sq) == \E r \in 1..Len(sq) : sq[r] = x

TreeBuilt == variant = "tree" /\ pipes # <<>>

\* C1: in the slot-addressed generator the root pipe0 has no left connection,
\* every other pipe has exactly one, naming an existing pipe one level up that
\* lists the child in its right connections, and the left connections lead
\* from every pipe to the root without repeating a pipe.
C1_TreeShape ==
    TreeBuilt =>
      /\ pipes[1].name = PipeName(0)
      /\ Len(pipes[1].left_connections) = 0
      /\ \A i \in 2..Len(pipes) :
           /\ Len(pipes[i].left_connections) = 1
           /\ \E j \in 1..Len(pipes) :
                /\ pipes[j].name = pipes[i].left_connections[1]
                /\ pipes[j].depth = pipes[i].depth - 1
                /\ InSeq(pipes[i].name, pipes[j].right_connections)
      /\ \A i \in 1..Len(pipes) : ReachesRoot(pipes[i].name, {})

\* a finished tree with a pipe two levels below the root
C1_Witness ==
    /\ variant = "tree" /\ pc = "done"
    /\ \E i \in 1..Len(pipes) : pipes[i].depth = 2

\* C2: no two pipes of one slot-addressed network share a slot or a name.
C2_SlotsUnique ==
    TreeBuilt =>
      \A i, j \in 1..Len(pipes) :
         i # j => /\ pipes[i].slot # pipes[j].slot
                  /\ pipes[i].name # pipes[j].name

NumChildren(i) ==
    Cardinality({j \in 2..Len(pipes) : pipes[j].left_connections = <<pipes[i].name>>})

\* a finished tree in which two pipes of one level both have children and
\* some expanded pipe realized fewer than max_branches children
C2_Witness ==
    /\ variant = "tree" /\ pc = "done"
    /\ \E i, j \in 2..Len(pipes) :
         /\ i # j /\ pipes[i].depth = pipes[j].depth
         /\ NumChildren(i) > 0 /\ NumChildren(j) > 0
         /\ NumChildren(i) < max_branches

\* first slot of depth d as the specification states it
slot_at_depth(d) == ((max_branches ^ d) - 1) \div (max_branches - 1)

\* C3: the root has slot 0 and the k-th child of the pipe at slot p, depth d
\* has slot slot_at_depth(d+1) + B*(p - slot_at_depth(d)) + k = B*p + 1 + k.
C3_ChildSlotFormula ==
    TreeBuilt =>
      /\ pipes[1].slot = 0
      /\ \A i \in 2..Len(pipes) :
           LET p == pipes[i].parent_slot
               k == pipes[i].branch_idx
               d == pipes[i].depth - 1
           IN /\ k \in 0..(max_branches - 1)
              /\ \E j \in 1..Len(pipes) :
                   /\ pipes[j].slot = p /\ pipes[j].depth = d
                   /\ pipes[i].left_connections = <<pipes[j].name>>
              /\ pipes[i].slot = slot_at_depth(d + 1)
                                   + max_branches * (p - slot_at_depth(d)) + k
              /\ pipes[i].slot = max_branches * p + 1 + k

\* a finished tree holding a last child (k = B-1) of a pipe that is not the root
C3_Witness ==
    /\ variant = "tree" /\ pc = "done"
    /\ \E i \in 2..Len(pipes) :
         /\ pipes[i].parent_slot > 0
         /\ pipes[i].branch_idx = max_branches - 1

\* decoding a slot: the first depth d, from d0 upwards, with s < slot_at_depth(d+1)
RECURSIVE DecodeDepth(_, _)
DecodeDepth(s, d0) ==
    IF s < slot_at_depth(d0 + 1) THEN d0 ELSE DecodeDepth(s, d0 + 1)

\* the depths whose slot range holds slot s (none lies above the decoded one,
\* the first slot of a depth growing with the depth)
DepthsOfSlot(s) ==
    {d \in 0..(DecodeDepth(s, 0) + 1) : slot_at_depth(d) <= s /\ s < slot_at_depth(d + 1)}

\* C4: decoding a generated pipe's slot to a depth gives exactly the depth
\* stored on the pipe (its parent's depth plus one).
C4_SlotDepthRoundTrip ==
    TreeBuilt =>
      \A i \in 1..Len(pipes) : DepthsOfSlot(pipes[i].slot) = {pipes[i].depth}

\* a finished tree whose root has all max_branches children and that has a
\* pipe at depth 2
C4_Witness ==
    /\ variant = "tree" /\ pc = "done"
    /\ NumChildren(1) = max_branches
    /\ \E i \in 1..Len(pipes) : pipes[i].depth = 2

\* sum(B^i for i in range(D+1)), pipe-network-processor.py line 58
RECURSIVE max_slot_count(_)
max_slot_count(D) ==
    IF D < 0 THEN 0 ELSE (max_branches ^ D) + max_slot_count(D - 1)

\* C5: every pipe of the slot-addressed generator has depth <= max_depth and
\* a slot below the maximum slot count, for every max_depth >= 0.
C5_DepthAndSlotBounded ==
    TreeBuilt =>
      \A i \in 1..Len(pipes) :
         /\ pipes[i].depth <= max_depth
         /\ pipes[i].slot < max_slot_count(max_depth)

\* C6: with max depth 0 the network is the root alone, carrying the emitter,
\* one sink and one receiver.
C6_RootOnlyTree ==
    (variant = "tree" /\ max_depth = 0 /\ pc = "done") =>
      /\ Len(data.pipes) = 1
      /\ data.pipes[1].key = PipeName(0)
      /\ Len(data.pipes[1].val.emitters) = 1
      /\ Len(data.pipes[1].val.receivers) = 1
      /\ data.pipes[1].val.right_connections = <<SinkName(1)>>
      /\ Len(data.sinks) = 1

RECURSIVE SumOver(_, _)
SumOver(f, n) == IF n = 0 THEN 0 ELSE f[n] + SumOver(f, n - 1)

\* emitter records over all pipes of the returned document
EmitterTotal ==
    SumOver([k \in 1..Len(data.pipes) |-> Len(data.pipes[k].val.emitters)],
            Len(data.pipes))

\* C7: the network returned by either generator holds exactly one emitter
\* record over all its pipes.
C7_OneEmitter ==
    pc = "done" => /\ EmitterTotal = 1
                   /\ Len(data.pipes) = Len(pipes)

\* a returned random-recursive tree whose emitter sits on a pipe other than
\* the root, next to pipes without emitter
C7_Witness ==
    /\ variant = "rrt" /\ pc = "done" /\ pipe_count >= 3
    /\ \E k \in 2..Len(data.pipes) : Len(data.pipes[k].val.emitters) = 1

PipeNamesIn(sq) == SelectSeq(sq, IsPipeName)

SinkNamesIn(sq) == SelectSeq(sq, IsSinkName)

\* C8: after generation a pipe has a sink iff it had no child pipes; its
\* right connections are then exactly one sink name and that sink's left
\* connections exactly that pipe; sink names are pairwise distinct, there are
\* as many sinks as leaf pipes, and a pipe with child pipes holds only the
\* names of its child pipes on the right.
C8_LeafTermination ==
    pc = "done" =>
      /\ \A i \in 1..Len(pipes) :
           LET right == pipes[i].right_connections
           IN /\ (SinkNamesIn(right) # <<>>) <=> (NumChildren(i) = 0)
              /\ NumChildren(i) = 0 =>
                   /\ Len(right) = 1 /\ IsSinkName(right[1])
                   /\ \E k \in 1..Len(sinks) :
                        /\ sinks[k].name = right[1]
                        /\ sinks[k].left_connections = <<pipes[i].name>>
              /\ NumChildren(i) > 0 =>
                   /\ right = PipeNamesIn(right)
                   /\ Len(right) = NumChildren(i)
      /\ \A k, m \in 1..Len(sinks) : k # m => sinks[k].name # sinks[m].name
      /\ \A k \in 1..Len(sinks) :
           \E i \in 1..Len(pipes) :
              /\ NumChildren(i) = 0
              /\ sinks[k].left_connections = <<pipes[i].name>>
              /\ pipes[i].right_connections = <<sinks[k].name>>
      /\ Len(sinks) = Cardinality({i \in 1..Len(pipes) : NumChildren(i) = 0})
      /\ data.sinks = sinks
      /\ \A i \in 1..Len(pipes) :
           data.pipes[i].val.right_connections = pipes[i].right_connections

\* a returned network with at least two leaves and a pipe with one child
C8_Witness ==
    /\ pc = "done" /\ Len(sinks) >= 2
    /\ \E i \in 1..Len(pipes) : NumChildren(i) = 1

\* the indices in the receiver names of pipes ps[1..n], pipe by pipe
RECURSIVE ReceiverIds(_, _)
ReceiverIds(ps, n) ==
    IF n = 0 THEN <<>>
    ELSE ReceiverIds(ps, n - 1)
           \o [r \in 1..Len(ps[n].receivers) |-> ps[n].receivers[r].name[1]]

AllReceiverIds == ReceiverIds(pipes, Len(pipes))

\* C9: at every moment of a generation the receiver indices in use are
\* 1..n, each used once (so every new receiver takes the next index whatever
\* pipe owns it); in the random-recursive variant the leaf receivers carry the
\* indices after those of the randomly placed receivers.
C9_ReceiverNumbering ==
    /\ \A a, b \in 1..Len(AllReceiverIds) :
          a # b => AllReceiverIds[a] # AllReceiverIds[b]
    /\ {AllReceiverIds[a] : a \in 1..Len(AllReceiverIds)} = 1..Len(AllReceiverIds)
    /\ \A i \in 1..Len(pipes) :
          \A r \in 1..Len(pipes[i].receivers) :
             r > 1 => pipes[i].receivers[r - 1].name[1] < pipes[i].receivers[r].name[1]
    /\ (variant = "rrt" /\ pc = "done") =>
          \A i \in 1..Len(pipes) :
             NumChildren(i) = 0 =>
               LET rs == pipes[i].receivers
               IN /\ rs # <<>>
                  /\ rs[Len(rs)].name[1] > receiver_count
                  /\ \A r \in 1..(Len(rs) - 1) : rs[r].name[1] <= receiver_count

\* a returned random-recursive tree with two randomly placed receivers, one
\* of them on a leaf, and two leaves
C9_Witness ==
    /\ variant = "rrt" /\ pc = "done" /\ receiver_count = 2 /\ Len(sinks) = 2
    /\ \E i \in 1..Len(pipes) :
         NumChildren(i) = 0 /\ Len(pipes[i].receivers) >= 2

\* s[lo] + ... + s[hi] with 0-based positions as in the source
RECURSIVE RangeSum(_, _, _)
RangeSum(s, lo, hi) == IF lo > hi THEN 0 ELSE s[hi + 1] + RangeSum(s, lo, hi - 1)

Min(a, b) == IF a < b THEN a ELSE b

\* C10: compress_time_series(s, W) returns ceil(L/W) values, the j-th being
\* the sum of s[j*W .. min((j+1)*W, L) - 1], a trailing partial window
\* included; 1..10 with W = 5 gives 15, 40.
C10_CompressWindows ==
    spc = "compressed" =>
      LET L == Len(time_series)
          W == factor
      IN /\ Len(compressed) = (L + W - 1) \div W
         /\ \A j \in 0..(Len(compressed) - 1) :
              compressed[j + 1] = RangeSum(time_series, j * W, Min((j + 1) * W, L) - 1)
         /\ (time_series = [k \in 1..10 |-> k] /\ W = 5) => compressed = <<15, 40>>

\* a compressed sequence whose last window is partial and not empty of counts
C10_Witness ==
    /\ spc = "compressed"
    /\ Len(time_series) % factor # 0 /\ Len(time_series) > factor
    /\ compressed[Len(compressed)] > 0

\* C11: compress_data(arr, W) returns ceil(L/W) values for every sequence of
\* non-negative integers, a last window of zeros included.
C11_CompressDataCount ==
    dpc = "done" =>
      Len(new_counters) = (Len(time_series) + factor - 1) \div factor

Total(s) == RangeSum(s, 0, Len(s) - 1)

\* C12: the values returned by compress_time_series and by compress_data
\* each add up to the sum of the input sequence.
C12_Conservation ==
    /\ spc \in {"compressed", "peaked"} => Total(compressed) = Total(time_series)
    /\ dpc = "done" => Total(new_counters) = Total(time_series)

\* both functions have run on a sequence of several windows whose last
\* window is partial and holds counts
C12_Witness ==
    /\ spc = "compressed" /\ dpc = "done"
    /\ Len(time_series) > factor /\ Len(time_series) % factor # 0
    /\ time_series[Len(time_series)] > 0

\* C13: get_t_peak_normalized gives 0 for an empty sequence and for a
\* maximum of 0, and otherwise i/n with n the length and i the (first)
\* position of the maximum, so 0 <= i < n.
C13_PeakTime ==
    spc = "peaked" =>
      LET n == Len(compressed)
      IN IF n = 0 \/ \A k \in 1..n : compressed[k] = 0
         THEN t_peak = Zero
         ELSE /\ t_peak[2] = n
              /\ t_peak[1] \in 0..(n - 1)
              /\ \A k \in 1..n : compressed[k] <= compressed[t_peak[1] + 1]
              /\ \A k \in 1..t_peak[1] : compressed[k] < compressed[t_peak[1] + 1]

\* a peak found at the last position of a sequence of several values
C13_Witness ==
    /\ spc = "peaked" /\ Len(compressed) >= 2
    /\ t_peak = <<Len(compressed) - 1, Len(compressed)>>

\* ------------------------------------------- claims on process_run_folder
\* the folders whose record the loop does not skip (its slot is below the
\* capacity) and the tensor row each of them writes
WellFormed(f) ==
    /\ run_folder[f].fields = 5
    /\ run_folder[f].numeric
    /\ is_number(run_folder[f].pipe_name)

Written ==
    {f \in DOMAIN run_folder :
        WellFormed(f) /\ run_folder[f].pipe_name.n < max_pipes}

RowOf(f) ==
    IF run_folder[f].pipe_name.n < 0 THEN max_pipes + run_folder[f].pipe_name.n
    ELSE run_folder[f].pipe_name.n

\* the folders that have their row to themselves
OwnRow == {f \in Written : \A g \in Written \ {f} : RowOf(g) # RowOf(f)}

\* the folder of the record named nm
FolderOf(nm) == CHOOSE f \in DOMAIN run_folder : run_folder[f].pipe_name = nm

IsRecordName(nm) == \E f \in DOMAIN run_folder : run_folder[f].pipe_name = nm

\* parent hops from folder f to a record whose parent field is the null
\* sentinel; -1 when none is reached within fuel hops
RECURSIVE Hops(_, _)
Hops(f, fuel) ==
    IF run_folder[f].parent_name = Sentinel THEN 0
    ELSE IF fuel = 0 \/ ~IsRecordName(run_folder[f].parent_name) THEN -1
    ELSE LET h == Hops(FolderOf(run_folder[f].parent_name), fuel - 1)
         IN IF h < 0 THEN -1 ELSE h + 1

\* the records form a tree: pipe numbers are not negative, one record has
\* the null sentinel as parent and every record reaches it
IsTreeRun ==
    /\ \A f \in DOMAIN run_folder :
          WellFormed(f) /\ run_folder[f].pipe_name.n >= 0
    /\ Cardinality({f \in DOMAIN run_folder :
                       run_folder[f].parent_name = Sentinel}) = 1
    /\ \A f \in DOMAIN run_folder :
          Hops(f, Cardinality(DOMAIN run_folder)) >= 0

\* C14: in a run whose records form a tree, the depth stored for a pipe is
\* its number of parent hops to the root: 0 for the root, the parent's depth
\* plus one for every other pipe.
C14_DepthIsHops ==
    (rpc = "returned" /\ IsTreeRun) =>
      \A f \in OwnRow :
         features[RowOf(f)][3] =
            <<Min(Hops(f, Cardinality(DOMAIN run_folder)), MAX_DEPTH), MAX_DEPTH>>

\* C15: the child count stored for a pipe is the number of records of the
\* run whose parent field equals the pipe's identifier.
C15_ChildCount ==
    rpc = "returned" =>
      \A f \in OwnRow :
         LET parents == [g \in DOMAIN run_folder |-> run_folder[g].parent_name]
             n == Cardinality({g \in DOMAIN parents :
                                  parents[g] = run_folder[f].pipe_name})
         IN features[RowOf(f)][4] = <<Min(n, MAX_CHILDREN), MAX_CHILDREN>>

\* pipes {0: root, 1: parent 0, 2: parent 0} give child counts {0:2, 1:0, 2:0}
C15_Witness ==
    /\ rpc = "returned" /\ max_pipes = 3
    /\ DOMAIN run_folder = {Prefixed(Str(0)), Prefixed(Str(1)), Prefixed(Str(2))}
    /\ run_folder[Prefixed(Str(0))].parent_name = Sentinel
    /\ run_folder[Prefixed(Str(1))].parent_name = Str(0)
    /\ run_folder[Prefixed(Str(2))].parent_name = Str(0)
    /\ features[0][4] = <<2, MAX_CHILDREN>>
    /\ features[1][4] = <<0, MAX_CHILDREN>>
    /\ features[2][4] = <<0, MAX_CHILDREN>>

\* C16: the depth walk terminates on every set of records: each iteration
\* visits an identifier not visited before (depth counts the visited set),
\* at most one more identifier than there are records is visited, and the
\* loop is left at the null sentinel (a missing parent is replaced by it)
\* or at an identifier already visited.
C16_WalkBounded ==
    /\ depth = Cardinality(visited)
    /\ depth <= Cardinality(DOMAIN run_folder) + 1
    /\ wpc = "exit" => (current_pipe = Sentinel \/ current_pipe \in visited)

\* a walk left on a cycle of two records
C16_Witness ==
    /\ wpc = "exit" /\ current_pipe \in visited /\ depth = 2

\* the walk leaves the loop
C16_WalkExits == <>(wpc = "exit")

\* C17: rows not written by a reconstructed pipe are all ones, written rows
\* have mask 0, and the rows with mask 0 are exactly the slots stored in
\* pipe_to_slot.
C17_MaskRows ==
    rpc = "returned" =>
      /\ \A i \in DOMAIN features :
            IF \E f \in Written : RowOf(f) = i
            THEN features[i][7] = Zero
            ELSE features[i] = [k \in 1..7 |-> <<1, 1>>]
      /\ {i \in DOMAIN features : features[i][7] = Zero} =
            {pipe_to_slot[nm] : nm \in DOMAIN pipe_to_slot}

\* the identifiers of the reconstructed pipes: the records that wrote a row
Reconstructed == {run_folder[f].pipe_name : f \in Written}

\* C18: the pipe label is -1 exactly when the target's pipe identifier is
\* not among the reconstructed pipes, and is that pipe's slot otherwise.
C18_PipeLabel ==
    rpc = "returned" =>
      /\ y_pipe_slot = -1 <=> emitter_pipe \notin Reconstructed
      /\ emitter_pipe \in Reconstructed => y_pipe_slot = emitter_pipe.n

\* C19: for every run with a target record the z label is the target's
\* axial position divided by L_MAX, whether or not the pipe was resolved.
C19_ZLabel ==
    (rpc = "returned" /\ emitter_pipe # None) =>
      y_z_norm[1] * L_MAX = emitter_z * y_z_norm[2]

\* the folders whose record is skipped for a slot at or above the capacity
SkippedFolders ==
    {f \in DOMAIN run_folder :
        WellFormed(f) /\ run_folder[f].pipe_name.n >= max_pipes}

\* the visit of a record whose slot is at or above the capacity does not
\* fail the run and changes neither the tensor nor pipe_to_slot
C20_SkipStep ==
    \A f \in (pipe_folders \ pipe_folders') \cap SkippedFolders :
       /\ rpc' # "raised"
       /\ features' = features
       /\ pipe_to_slot' = pipe_to_slot

\* in a returned run no entry and no row belongs to such a record
C20_SkippedRows ==
    rpc = "returned" =>
      \A k \in SkippedFolders :
         /\ run_folder[k].pipe_name \notin DOMAIN pipe_to_slot
         /\ \A nm \in DOMAIN pipe_to_slot : pipe_to_slot[nm] # run_folder[k].pipe_name.n
         /\ \A i \in DOMAIN features :
               LET others == {g \in Written \ {k} : RowOf(g) = i}
               IN IF others = {} THEN features[i] = [c \in 1..7 |-> <<1, 1>>]
                  ELSE \E g \in others :
                          /\ features[i] = feature_row(run_folder, g)
                          /\ features[i][1] = <<run_folder[g].length, L_MAX>>
                          /\ features[i][2] = <<run_folder[g].radius, R_MAX>>
                          /\ features[i][7] = Zero

\* C20: a record whose slot is at or above the capacity is skipped without
\* failing the run: its visit raises nothing and writes nothing, no entry of
\* pipe_to_slot and no row belongs to it, and every row is the one the other
\* records give, all ones where no other record writes.
C20_SkipOutOfRange == []C20_SkippedRows /\ [][C20_SkipStep]_vars

\* a returned run that skipped a record and encoded two others
C20_Witness ==
    /\ rpc = "returned"
    /\ SkippedFolders # {}
    /\ Cardinality(DOMAIN pipe_to_slot) = 2

\* ------------------------------------------------ claims, third part
\* fractions <<numerator, denominator>>: equality and sum
FracEq(a, b) == a[1] * b[2] = b[1] * a[2]

FracAdd(a, b) == <<a[1] * b[2] + b[1] * a[2], a[2] * b[2]>>

\* the positions of the pipes whose only left connection names pipes[k]
ChildPipes(k) ==
    {j \in 1..Len(pipes) : pipes[j].left_connections = <<pipes[k].name>>}

RECURSIVE RadiusTotal(_)
RadiusTotal(kids) ==
    IF kids = {} THEN 0
    ELSE LET j == CHOOSE x \in kids : TRUE
         IN pipes[j].radius + RadiusTotal(kids \ {j})

RECURSIVE FlowTotal(_)
FlowTotal(kids) ==
    IF kids = {} THEN Zero
    ELSE LET j == CHOOSE x \in kids : TRUE
         IN FracAdd(pipes[j].flow, FlowTotal(kids \ {j}))

FlowsAssigned ==
    variant = "rrt" /\ pc \in {"receiver_count", "receivers", "leaves", "done"}

\* C23: in the random-recursive-tree generator the root's flow is the flow
\* value; the children of a pipe whose radii sum to more than 0 get
\* parent.flow * radius / sum of sibling radii each, which adds up to the
\* parent's flow; when the radii sum to 0 every child gets flow 0.
C23_ProportionalFlow ==
    FlowsAssigned =>
      /\ pipes[1].flow = FlowValue
      /\ \A k \in 1..Len(pipes) :
            LET kids == ChildPipes(k)
                total == RadiusTotal(kids)
            IN IF total > 0
               THEN /\ \A j \in kids :
                          FracEq(pipes[j].flow,
                                 <<pipes[k].flow[1] * pipes[j].radius,
                                   pipes[k].flow[2] * total>>)
                    /\ FracEq(FlowTotal(kids), pipes[k].flow)
               ELSE \A j \in kids : FracEq(pipes[j].flow, Zero)

\* a finished network whose root, of positive flow, feeds two children of
\* positive radius
C23_Witness ==
    /\ variant = "rrt" /\ pc = "done"
    /\ Cardinality(ChildPipes(1)) = 2
    /\ \A j \in ChildPipes(1) : pipes[j].radius > 0 /\ pipes[j].flow[1] > 0

\* what a list of pipe records shows of the generation sections: the tree
\* built, the emitters placed, the receivers placed by random draws (every
\* sink comes with one leaf receiver, which takes no draw)
Structure(ps) == [k \in 1..Len(ps) |-> <<ps[k].name, ps[k].left_connections>>]

CountEmitters(ps) == SumOver([k \in 1..Len(ps) |-> Len(ps[k].emitters)], Len(ps))

CountReceivers(ps) == SumOver([k \in 1..Len(ps) |-> Len(ps[k].receivers)], Len(ps))

DrawnReceivers(ps, sk) == CountReceivers(ps) - Len(sk)

FlowDone(at) == at \in {"emitter", "receiver_count", "receivers", "leaves", "done"}

ExpansionStep == Structure(pipes') # Structure(pipes)

FlowStep == ~FlowDone(pc) /\ FlowDone(pc')

EmitterStep == CountEmitters(pipes') > CountEmitters(pipes)

ReceiverStep == DrawnReceivers(pipes', sinks') > DrawnReceivers(pipes, sinks)

LeafStep == Len(sinks') > Len(sinks)

\* C24 as stated: expansion, flow, emitter, receiver placement, leaf
\* termination in this order, in both generators; every emitter draw comes
\* before every receiver draw.
C24_EmitterBeforeReceivers ==
    [][/\ ExpansionStep => (/\ ~FlowDone(pc) /\ CountEmitters(pipes) = 0
                            /\ DrawnReceivers(pipes, sinks) = 0 /\ sinks = <<>>)
       /\ FlowStep => (/\ CountEmitters(pipes) = 0
                       /\ DrawnReceivers(pipes, sinks) = 0 /\ sinks = <<>>)
       /\ EmitterStep => (/\ FlowDone(pc) /\ DrawnReceivers(pipes, sinks) = 0
                          /\ sinks = <<>>)
       /\ ReceiverStep => (/\ FlowDone(pc) /\ CountEmitters(pipes) > 0
                           /\ sinks = <<>>)
       /\ LeafStep => (FlowDone(pc) /\ CountEmitters(pipes) > 0)]_vars

\* C24 amended: the slot-addressed generator runs expansion, flow, emitter,
\* leaf termination and draws no receiver; the random-recursive-tree
\* generator runs expansion, flow, receiver placement, emitter, leaf
\* termination, so all its receiver draws come before its emitter draws.
C24_DrawOrder ==
    [][/\ ExpansionStep => (/\ ~FlowDone(pc) /\ CountEmitters(pipes) = 0
                            /\ DrawnReceivers(pipes, sinks) = 0 /\ sinks = <<>>)
       /\ FlowStep => (/\ CountEmitters(pipes) = 0
                       /\ DrawnReceivers(pipes, sinks) = 0 /\ sinks = <<>>)
       /\ ReceiverStep => (/\ variant = "rrt" /\ FlowDone(pc)
                           /\ CountEmitters(pipes) = 0 /\ sinks = <<>>)
       /\ EmitterStep => (/\ FlowDone(pc) /\ sinks = <<>>
                          /\ CountEmitters(pipes) = 0
                          /\ DrawnReceivers(pipes, sinks) =
                                (IF variant = "rrt" THEN receiver_count ELSE 0))
       /\ LeafStep => (FlowDone(pc) /\ CountEmitters(pipes) > 0)]_vars

\* a finished random recursive tree with two drawn receivers, an emitter and
\* a sink
C24_Witness ==
    /\ variant = "rrt" /\ pc = "done"
    /\ DrawnReceivers(pipes, sinks) = 2
    /\ CountEmitters(pipes) = 1
    /\ sinks # <<>>

\* the random recursive tree has its depths: the breadth-first pass is over
DepthsAssigned ==
    variant = "rrt" /\ pc \in {"flow", "receiver_count", "receivers", "leaves", "done"}

\* position of the pipe that the left connection of pipes[i] names, 0 when
\* there is not exactly one such pipe at a smaller position
ParentIndex(i) ==
    LET cands == {j \in 1..(i - 1) : pipes[i].left_connections = <<pipes[j].name>>}
    IN IF Cardinality(cands) = 1 THEN CHOOSE j \in cands : TRUE ELSE 0

\* pipes[i] reaches pipes[1] by following left connections
RECURSIVE ReachesFirst(_)
ReachesFirst(i) ==
    IF i = 1 THEN TRUE
    ELSE IF ParentIndex(i) = 0 THEN FALSE
    ELSE ReachesFirst(ParentIndex(i))

\* C27: in the random-recursive-tree generator pipes[0] has no left
\* connection, every later pipe has exactly one, naming a pipe earlier in
\* the list, so every pipe reaches the root, and the breadth-first pass
\* gives the root depth 0 and every other pipe its parent's depth plus one.
C27_RecursiveTree ==
    DepthsAssigned =>
      /\ Len(pipes) = pipe_count /\ pipe_count >= 1
      /\ \A i, j \in 1..Len(pipes) : i # j => pipes[i].name # pipes[j].name
      /\ pipes[1].left_connections = <<>>
      /\ "depth" \in DOMAIN pipes[1] /\ pipes[1].depth = 0
      /\ \A i \in 2..Len(pipes) :
            /\ Len(pipes[i].left_connections) = 1
            /\ ParentIndex(i) \in 1..(i - 1)
            /\ ReachesFirst(i)
            /\ "depth" \in DOMAIN pipes[i]
            /\ pipes[i].depth = pipes[ParentIndex(i)].depth + 1

\* a finished chain of three pipes, the last at depth 2
C27_Witness ==
    /\ variant = "rrt" /\ pc = "done" /\ Len(pipes) = 3
    /\ ParentIndex(3) = 2 /\ ParentIndex(2) = 1
    /\ pipes[3].depth = 2

\* C28: in the slot-addressed tree generator the list of pipes is in
\* strictly increasing slot order after every step (no pipe is appended with
\* a slot below that of an earlier pipe), and the 'pipes' mapping of the
\* document lists pipe<slot> in the same order.
C28_SlotOrder ==
    variant = "tree" =>
      /\ \A i, j \in 1..Len(pipes) : i < j => pipes[i].slot < pipes[j].slot
      /\ pc = "done" =>
           /\ Len(data.pipes) = Len(pipes)
           /\ \A k \in 1..Len(pipes) : data.pipes[k].key = PipeName(pipes[k].slot)
           /\ \A i, j \in 1..Len(data.pipes) :
                 i < j => data.pipes[i].key[2] < data.pipes[j].key[2]

\* a finished tree in which two pipes of depth 1 both got children, so that
\* the children of the second follow those of the first
C28_Witness ==
    /\ variant = "tree" /\ pc = "done"
    /\ \E i, j \in 1..Len(pipes) :
         /\ i < j /\ pipes[i].depth = 2 /\ pipes[j].depth = 2
         /\ pipes[i].parent_slot < pipes[j].parent_slot

\* pipes named among the right connections of pipes[i]
RightPipes(i) == Len(PipeNamesIn(pipes[i].right_connections))

VisitedFolder == pipe_folders \ pipe_folders'

\* C25: row index equals slot: a step of the loop over the pipe folders
\* changes a tensor row only at the index equal to the visited record's pipe
\* number, which lies in 0..max_pipes-1, and a record whose pipe number is
\* negative changes no row and adds no pipe_to_slot entry.
C25_RowIsSlot ==
    [][\A f \in VisitedFolder :
          LET slot == run_folder[f].pipe_name.n
          IN /\ \A i \in DOMAIN features :
                   features'[i] # features[i] =>
                      i = slot /\ slot \in 0..(max_pipes - 1)
             /\ slot < 0 => features' = features /\ pipe_to_slot' = pipe_to_slot
      ]_vars

\* the folders whose record is malformed
MalformedFolders == {f \in DOMAIN run_folder : ~WellFormed(f)}

\* C21: a record with malformed fields is skipped: the run does not raise,
\* and when it returns no pipe_to_slot entry belongs to a malformed record
\* and every row is the one the well-formed records give, all ones where
\* none of them writes.
C21_MalformedSkipped ==
    /\ rpc # "raised"
    /\ rpc = "returned" =>
          /\ \A k \in MalformedFolders :
                run_folder[k].pipe_name \notin DOMAIN pipe_to_slot
          /\ \A i \in DOMAIN features :
                LET writers == {g \in Written : RowOf(g) = i}
                IN IF writers = {} THEN features[i] = ones_row
                   ELSE \E g \in writers :
                           features[i] = feature_row(run_folder, g)

\* the same for the records whose length and radius are numbers
C21_SkippedUnlessFloat ==
    (\A f \in DOMAIN run_folder : run_folder[f].numeric) =>
        C21_MalformedSkipped

\* C26: in every written row the normalized depth is
\* min(depth, MAX_DEPTH)/MAX_DEPTH and the normalized child count is
\* min(children, MAX_CHILDREN)/MAX_CHILDREN, both in [0, 1], and two pipes of
\* a tree run whose hops to the root differ and are both at most MAX_DEPTH
\* get different normalized depths.
C26_ClampedNormalisation ==
    rpc = "returned" =>
      /\ \A f \in OwnRow :
            LET row == features[RowOf(f)]
            IN /\ row[3] = <<min(calc_depth(run_folder, f), MAX_DEPTH), MAX_DEPTH>>
               /\ row[4] = <<min(count_children(run_folder, f), MAX_CHILDREN),
                             MAX_CHILDREN>>
               /\ row[3][1] \in 0..row[3][2]
               /\ row[4][1] \in 0..row[4][2]
      /\ IsTreeRun =>
            \A f, g \in OwnRow :
               LET hf == Hops(f, Cardinality(DOMAIN run_folder))
                   hg == Hops(g, Cardinality(DOMAIN run_folder))
               IN (hf # hg /\ hf <= MAX_DEPTH /\ hg <= MAX_DEPTH) =>
                     ~FracEq(features[RowOf(f)][3], features[RowOf(g)][3])

\* the clamping alone, without the comparison of depths
C26_ClampedOnly ==
    rpc = "returned" =>
       \A f \in OwnRow :
          LET row == features[RowOf(f)]
          IN /\ row[3] = <<min(calc_depth(run_folder, f), MAX_DEPTH), MAX_DEPTH>>
             /\ row[4] = <<min(count_children(run_folder, f), MAX_CHILDREN),
                           MAX_CHILDREN>>
             /\ row[3][1] \in 0..row[3][2]
             /\ row[4][1] \in 0..row[4][2]

\* the records that have a slot have pairwise distinct slots
DistinctSlots ==
    \A f, g \in DOMAIN run_folder :
       (f # g /\ WellFormed(f) /\ WellFormed(g)) =>
          run_folder[f].pipe_name.n # run_folder[g].pipe_name.n

\* what one fixed listing order of the folders gives
FixedOrderResult ==
    process_run_folder(run_folder, max_pipes, emitter_pipe, emitter_z,
                       listdir(DOMAIN run_folder))

\* with pairwise distinct slots every visiting order ends as the fixed order
C30_SameForEveryOrder ==
    DistinctSlots =>
       /\ rpc = "raised" => FixedOrderResult.raised
       /\ rpc = "returned" =>
             /\ ~FixedOrderResult.raised
             /\ features = FixedOrderResult.features
             /\ y_pipe_slot = FixedOrderResult.y_pipe_slot
             /\ y_z_norm = FixedOrderResult.y_z_norm

\* the row of a record that writes holds that record's values after the
\* visit, whatever an earlier record of the same slot wrote
C30_LastVisited ==
    [][\A f \in VisitedFolder :
          (f \in Written /\ rpc' # "raised") =>
             features'[RowOf(f)] = feature_row(run_folder, f)]_vars

\* C30: for a run whose records have pairwise distinct slots the tensor and
\* the two labels are the same for every order in which the records are
\* visited, and when two records map to the same slot the row keeps the
\* values of the record visited last.
C30_OrderIndependent == []C30_SameForEveryOrder /\ C30_LastVisited

\* the same for runs whose pipe numbers are not negative
C30_NonNegativeSlots ==
    (\A f \in DOMAIN run_folder : run_folder[f].pipe_name.n >= 0) =>
        C30_SameForEveryOrder

\* the runs of the split already processed
Processed == 1..split_i

\* the processed runs for which process_run_folder returned
Retained == {k \in Processed : ~run_result(folders[k]).raised}

\* the place of run k among the samples
SampleOf(k) == Cardinality({j \in Retained : j <= k})

\* the identifiers of the pipes a run's records reconstruct
reconstructed(rf) ==
    {rf[f].pipe_name : f \in {g \in DOMAIN rf :
                                /\ rf[g].fields = 5
                                /\ rf[g].numeric
                                /\ is_number(rf[g].pipe_name)
                                /\ rf[g].pipe_name.n < default_max_pipes}}

\* the processed runs whose target's pipe is not among the reconstructed
AbsentTarget ==
    {k \in Processed :
        /\ folders[k].target # None
        /\ folders[k].target \notin reconstructed(folders[k].run)}

\* the three lists have one length and place i of each belongs to one run
C22_Aligned ==
    /\ Len(features_list) = Cardinality(Retained)
    /\ Len(pipe_labels) = Len(features_list)
    /\ Len(z_labels) = Len(features_list)
    /\ \A k \in Retained :
          /\ features_list[SampleOf(k)] = run_result(folders[k]).features
          /\ pipe_labels[SampleOf(k)] = run_result(folders[k]).y_pipe_slot
          /\ z_labels[SampleOf(k)] = run_result(folders[k]).y_z_norm

\* C22: a run whose target pipe is absent from the reconstructed pipes is
\* retained with one sample of pipe label -1, and the three lists have the
\* same length with place i of each belonging to the same run.
C22_AbsentTargetRetained ==
    /\ C22_Aligned
    /\ \A k \in AbsentTarget :
          /\ k \in Retained
          /\ pipe_labels[SampleOf(k)] = -1

\* the same for the runs in which no length or radius fails to parse
C22_RetainedUnlessRaised ==
    /\ C22_Aligned
    /\ \A k \in AbsentTarget :
          (\A f \in DOMAIN folders[k].run : folders[k].run[f].numeric) =>
             /\ k \in Retained
             /\ pipe_labels[SampleOf(k)] = -1

====
